---- MODULE Spec2Model ----
(***************************************************************************)
(* Model of update_nwf_metrics.py: the NWFMetricsCalculator scorer and the *)
(* main() pipeline that loads a document, scores every stock, stamps the   *)
(* metadata, sorts, saves and reports.                                     *)
(*                                                                         *)
(* Number encoding.  A stock is a function from field names to values.     *)
(*   price, ma20, ma50, rsi, avg_volume     : the number                   *)
(*   macd, macd_signal, volatility, vol_spike : the number times 10        *)
(*   ai_ensemble.confidence                 : the number (an integer)      *)
(*   nwf_score, nwf_robust_score            : the number times 100         *)
(*   nwf_confidence, liquidity_score        : the number                   *)
(* The float products that decide round(.., 2) are computed on IEEE-754    *)
(* doubles, as CPython computes them (section "binary64 arithmetic").      *)
(***************************************************************************)
EXTENDS Integers, Sequences, FiniteSets, TLC

(***************************************************************************)
(* Bounds of the model.                                                    *)
(***************************************************************************)
\* longest `stocks` list of a loaded document
MaxStocks == 3
\* most calls of process_stock on one record in the scorer specification
MaxCalls == 2

(***************************************************************************)
(* Natural numbers of any size, little-endian sequences of limbs: TLC's    *)
(* integers are 32 bits wide and a double's mantissa has 53.               *)
(***************************************************************************)
Base == 2^15

RECURSIVE Limbs(_)
Limbs(n) == IF n = 0 THEN <<>> ELSE <<n % Base>> \o Limbs(n \div Base)

RECURSIVE ToInt(_)
ToInt(x) == IF x = <<>> THEN 0 ELSE Head(x) + Base * ToInt(Tail(x))

RECURSIVE Trim(_)
Trim(x) ==
  IF x = <<>> THEN <<>>
  ELSE IF x[Len(x)] = 0 THEN Trim(SubSeq(x, 1, Len(x) - 1))
  ELSE x

RECURSIVE MulCarry(_, _, _)
MulCarry(x, k, carry) ==
  IF x = <<>> THEN Limbs(carry)
  ELSE LET t == Head(x) * k + carry
       IN  <<t % Base>> \o MulCarry(Tail(x), k, t \div Base)

\* x * k for 0 <= k <= Base
BMulSmall(x, k) == Trim(MulCarry(x, k, 0))

RECURSIVE AddCarry(_, _, _)
AddCarry(x, y, carry) ==
  IF x = <<>> /\ y = <<>> THEN Limbs(carry)
  ELSE LET a == IF x = <<>> THEN 0 ELSE Head(x)
           b == IF y = <<>> THEN 0 ELSE Head(y)
           t == a + b + carry
       IN  <<t % Base>> \o
           AddCarry(IF x = <<>> THEN <<>> ELSE Tail(x),
                    IF y = <<>> THEN <<>> ELSE Tail(y), t \div Base)

BAdd(x, y) == Trim(AddCarry(x, y, 0))

RECURSIVE BMul(_, _)
BMul(x, y) ==
  IF x = <<>> \/ y = <<>> THEN <<>>
  ELSE BAdd(BMulSmall(y, Head(x)), Trim(<<0>> \o BMul(Tail(x), y)))

\* <<quotient, remainder>> of x by d, 0 < d <= Base (quotient untrimmed)
RECURSIVE DivRem(_, _)
DivRem(x, d) ==
  IF x = <<>> THEN << <<>>, 0 >>
  ELSE LET hi  == DivRem(Tail(x), d)
           cur == hi[2] * Base + Head(x)
       IN  << <<cur \div d>> \o hi[1], cur % d >>

RECURSIVE BitLenInt(_)
BitLenInt(n) == IF n = 0 THEN 0 ELSE 1 + BitLenInt(n \div 2)

\* number of significant bits of a trimmed x
BitLen(x) == IF x = <<>> THEN 0 ELSE 15 * (Len(x) - 1) + BitLenInt(x[Len(x)])

RECURSIVE Zeros(_)
Zeros(n) == IF n = 0 THEN <<>> ELSE <<0>> \o Zeros(n - 1)

\* x * 2^k
ShiftLeft(x, k) ==
  IF x = <<>> THEN <<>> ELSE Zeros(k \div 15) \o BMulSmall(x, 2^(k % 15))

\* floor(x / 2^k)
ShiftRight(x, k) ==
  IF k \div 15 >= Len(x) THEN <<>>
  ELSE Trim(DivRem(SubSeq(x, (k \div 15) + 1, Len(x)), 2^(k % 15))[1])

\* x mod 2^k = 0
LowBitsZero(x, k) ==
  /\ \A i \in 1..Len(x) : i <= k \div 15 => x[i] = 0
  /\ (k \div 15) + 1 <= Len(x) => x[(k \div 15) + 1] % (2^(k % 15)) = 0

IsOdd(x) == x # <<>> /\ Head(x) % 2 = 1

\* x / 2^k rounded to the nearest integer, ties to even (IEEE round-to-nearest)
RoundShift(x, k) ==
  IF k = 0 THEN x
  ELSE LET h      == ShiftRight(x, k - 1)
           q      == ShiftRight(h, 1)
           sticky == ~LowBitsZero(x, k - 1)
           up     == IsOdd(h) /\ (sticky \/ IsOdd(q))
       IN  IF up THEN BAdd(q, <<1>>) ELSE q

(***************************************************************************)
(* binary64 arithmetic.  A positive double is <<m, k>>: the value m / 2^k  *)
(* with m a natural number of at most 53 bits (2^53 after a carry).        *)
(***************************************************************************)
\* the t with 2^52 <= n * 2^t / d < 2^53, for integers n, d > 0
RECURSIVE ScaleFrom(_, _, _)
ScaleFrom(n, d, t) ==
  LET q == Trim(DivRem(ShiftLeft(Limbs(n), t), d)[1])
  IN  IF BitLen(q) < 53 THEN ScaleFrom(n, d, t + 1) ELSE t

\* the double nearest to n / d (Python's int / int and float literal n/d)
FloatDiv(n, d) ==
  LET t  == ScaleFrom(n, d, 52 + BitLenInt(d) - BitLenInt(n))
      qr == DivRem(ShiftLeft(Limbs(n), t), d)
      q  == Trim(qr[1])
      up == 2 * qr[2] > d \/ (2 * qr[2] = d /\ IsOdd(q))
  IN  << IF up THEN BAdd(q, <<1>>) ELSE q, t >>

\* the double nearest to a * b (Python's float * float)
FloatMul(a, b) ==
  LET n  == BMul(a[1], b[1])
      sh == IF BitLen(n) > 53 THEN BitLen(n) - 53 ELSE 0
  IN  << RoundShift(n, sh), a[2] + b[2] - sh >>

\* round(x, 2) of a positive double x, times 100: CPython rounds the exact
\* binary value correctly, ties to even
FloatRound2(x) == ToInt(RoundShift(BMulSmall(x[1], 100), x[2]))

(***************************************************************************)
(* Python dictionaries: functions from keys to values.                     *)
(***************************************************************************)
EmptyDict == [k \in {} |-> 0]

\* d.get(k, default)
Get(d, k, default) == IF k \in DOMAIN d THEN d[k] ELSE default

\* d[k] = v
Put(d, k, v) == [x \in DOMAIN d \cup {k} |-> IF x = k THEN v ELSE d[x]]

\* a JSON value that is no number (a string): comparing it with a number
\* raises TypeError
NonNumeric == -1000000

\* int(x / 10): Python's int() truncates toward zero
TruncTenths(x) == IF x >= 0 THEN x \div 10 ELSE -((-x) \div 10)

Abs(n) == IF n < 0 THEN -n ELSE n

\* round(score * (confidence / 100), 2), times 100; score is the double
\* nearest to s / 100 (what round(.., 2) returned), confidence the integer c.
\* Negating an operand negates the product and its rounding.
RoundScoreTimesConfidence(s, c) ==
  IF s = 0 \/ c = 0 THEN 0
  ELSE LET r == FloatRound2(FloatMul(FloatDiv(Abs(s), 100),
                                     FloatDiv(Abs(c), 100)))
       IN  IF (s < 0) = (c < 0) THEN r ELSE -r

(***************************************************************************)
(* NWFMetricsCalculator                                                    *)
(***************************************************************************)
ai_conf(stock) == Get(Get(stock, "ai_ensemble", EmptyDict), "confidence", 50)

\* Signal 1: Trend
TrendSignal(stock) ==
  IF Get(stock, "price", 0) > Get(stock, "ma20", 0) THEN 250
  ELSE IF Get(stock, "price", 0) > Get(stock, "ma50", 0) THEN 150
  ELSE 50

\* Signal 2: MACD
MacdSignal(stock) ==
  LET macd        == Get(stock, "macd", 0)
      macd_signal == Get(stock, "macd_signal", 0)
  IN  IF macd > macd_signal /\ macd > 0 THEN 200
      ELSE IF macd > macd_signal THEN 150
      ELSE IF macd < 0 /\ macd_signal < 0 THEN 50
      ELSE 100

\* Signal 3: RSI
RsiSignal(stock) ==
  LET rsi == Get(stock, "rsi", 50)
  IN  IF 40 <= rsi /\ rsi <= 60 THEN 200
      ELSE IF 30 <= rsi /\ rsi < 40 THEN 180
      ELSE IF 60 < rsi /\ rsi <= 70 THEN 150
      ELSE IF rsi < 30 THEN 100
      ELSE 50

\* Signal 4: Volatility (in tenths)
VolatilitySignal(stock) ==
  LET volatility == Get(stock, "volatility", 50)
  IN  IF volatility < 30 THEN 150
      ELSE IF volatility < 50 THEN 120
      ELSE IF volatility < 80 THEN 80
      ELSE 30

\* VolumeSignal with a missing vol_spike read as 0
VolumeSignal_default0(stock) ==
  LET vol_spike == Get(stock, "vol_spike", 0)
  IN  IF vol_spike >= 20 THEN 100
      ELSE IF vol_spike >= 15 THEN 80
      ELSE IF vol_spike >= 10 THEN 60
      ELSE 30

\* Signal 5: Volume spike (in tenths)
VolumeSignal(stock) ==
  LET vol_spike == Get(stock, "vol_spike", 10)
  IN  IF vol_spike >= 20 THEN 100
      ELSE IF vol_spike >= 15 THEN 80
      ELSE IF vol_spike >= 10 THEN 60
      ELSE 30

\* AiSignal capped to [0, 1]
AiSignal_capped(stock) ==
  IF ai_conf(stock) > 100 THEN 100
  ELSE IF ai_conf(stock) < 0 THEN 0
  ELSE ai_conf(stock)

\* Signal 6: AI ensemble, (ai_conf / 100) * 1.0 in hundredths
AiSignal(stock) == ai_conf(stock)

\* calculate_nwf_score adding to the score the record already holds
calculate_nwf_score_accumulating(stock) ==
  Get(stock, "nwf_score", 0)
    + TrendSignal(stock) + MacdSignal(stock) + RsiSignal(stock)
    + VolatilitySignal(stock) + VolumeSignal(stock) + ai_conf(stock)

\* round(score, 2) in hundredths.  With an integer ai confidence the six
\* terms are whole hundredths and the float sum rounds to exactly their sum.
calculate_nwf_score(stock) ==
  TrendSignal(stock) + MacdSignal(stock) + RsiSignal(stock)
    + VolatilitySignal(stock) + VolumeSignal(stock) + AiSignal(stock)

\* calculate_nwf_score raises TypeError: a comparison it evaluates has a
\* non-number on one side (`elif price > ma50` is evaluated only when
\* `price > ma20` is false)
nwf_score_raises(stock) ==
  \/ Get(stock, "rsi", 50) = NonNumeric
  \/ /\ Get(stock, "ma50", 0) = NonNumeric
     /\ ~(Get(stock, "price", 0) > Get(stock, "ma20", 0))

\* AiFactor with base_conf clamped to 50 right after it
AiFactor_clamped(stock) ==
  IF (ai_conf(stock) - 50) * 3 < 0 THEN 0 ELSE (ai_conf(stock) - 50) * 3

\* Factor 1: AI agreement, (ai_conf - 50) * 0.3 in tenths
AiFactor(stock) == (ai_conf(stock) - 50) * 3

\* Factor 2: Volatility stability (volatility in tenths, the factor too)
VolatilityFactor(stock) ==
  LET volatility == Get(stock, "volatility", 50)
  IN  IF volatility < 40 THEN 100
      ELSE IF volatility > 80 THEN -100
      ELSE 0

\* Factor 3: Trend consistency
TrendFactor(stock) ==
  LET price == Get(stock, "price", 0)
      ma20  == Get(stock, "ma20", 0)
      ma50  == Get(stock, "ma50", 0)
  IN  IF price > ma20 /\ ma20 > ma50 THEN 150
      ELSE IF price < ma20 /\ ma20 < ma50 THEN 100
      ELSE 50

\* Factor 4: RSI confirmation
RsiFactor(stock) ==
  LET rsi == Get(stock, "rsi", 50)
  IN  IF 30 <= rsi /\ rsi <= 70 THEN 100 ELSE 0

\* Factor 5: MACD alignment
MacdFactor(stock) ==
  LET macd        == Get(stock, "macd", 0)
      macd_signal == Get(stock, "macd_signal", 0)
      price       == Get(stock, "price", 0)
      ma20        == Get(stock, "ma20", 0)
  IN  IF (macd > macd_signal /\ price > ma20)
         \/ (macd < macd_signal /\ price < ma20)
      THEN 100 ELSE 0

\* base_conf before `return`, in tenths
base_conf(stock) ==
  500 + AiFactor(stock) + VolatilityFactor(stock) + TrendFactor(stock)
    + RsiFactor(stock) + MacdFactor(stock)

Max(a, b) == IF a > b THEN a ELSE b

Min(a, b) == IF a < b THEN a ELSE b

\* the return without its clamp
calculate_confidence_unclamped(stock) == TruncTenths(base_conf(stock))

\* return min(95, max(50, int(base_conf)))
calculate_confidence(stock) ==
  Min(95, Max(50, TruncTenths(base_conf(stock))))

\* calculate_confidence raises TypeError: the chained comparisons
\* `price > ma20 > ma50` and `price < ma20 < ma50` reach ma50 only when
\* their first half holds
confidence_raises(stock) ==
  LET price == Get(stock, "price", 0)
      ma20  == Get(stock, "ma20", 0)
  IN  \/ Get(stock, "rsi", 50) = NonNumeric
      \/ /\ Get(stock, "ma50", 0) = NonNumeric
         /\ (price > ma20 \/ price < ma20)

\* calculate_liquidity_score with strict comparisons
calculate_liquidity_score_strict(stock) ==
  LET avg_volume == Get(stock, "avg_volume", 0)
  IN  IF avg_volume > 500000 THEN 9
      ELSE IF avg_volume > 300000 THEN 8
      ELSE IF avg_volume > 200000 THEN 7
      ELSE IF avg_volume > 100000 THEN 6
      ELSE IF avg_volume > 50000 THEN 5
      ELSE 4

calculate_liquidity_score(stock) ==
  LET avg_volume == Get(stock, "avg_volume", 0)
  IN  IF avg_volume >= 500000 THEN 9
      ELSE IF avg_volume >= 300000 THEN 8
      ELSE IF avg_volume >= 200000 THEN 7
      ELSE IF avg_volume >= 100000 THEN 6
      ELSE IF avg_volume >= 50000 THEN 5
      ELSE 4

liquidity_raises(stock) == Get(stock, "avg_volume", 0) = NonNumeric

\* process_stock computing the robust score first, from what the record holds
process_stock_robust_first(stock) ==
  LET s0 == Put(stock, "nwf_robust_score",
                RoundScoreTimesConfidence(Get(stock, "nwf_score", 0),
                                          Get(stock, "nwf_confidence", 0)))
      s1 == Put(s0, "nwf_score", calculate_nwf_score(s0))
      s2 == Put(s1, "nwf_confidence", calculate_confidence(s1))
      s3 == Put(s2, "liquidity_score", calculate_liquidity_score(s2))
  IN  [stock |-> s3,
       raised |-> nwf_score_raises(stock) \/ confidence_raises(stock)
                    \/ liquidity_raises(stock)]

\* process_stock mutates the record key by key; an exception leaves the
\* keys written so far.  [stock |-> the record afterwards, raised |-> whether
\* an exception left the call]
process_stock(stock) ==
  IF nwf_score_raises(stock) THEN [stock |-> stock, raised |-> TRUE]
  ELSE LET s1 == Put(stock, "nwf_score", calculate_nwf_score(stock))
       IN  IF confidence_raises(s1) THEN [stock |-> s1, raised |-> TRUE]
           ELSE LET s2 == Put(s1, "nwf_confidence", calculate_confidence(s1))
                IN  IF liquidity_raises(s2) THEN [stock |-> s2, raised |-> TRUE]
                    ELSE LET s3 == Put(s2, "liquidity_score",
                                       calculate_liquidity_score(s2))
                             s4 == Put(s3, "nwf_robust_score",
                                       RoundScoreTimesConfidence(
                                         s3["nwf_score"], s3["nwf_confidence"]))
                         IN  [stock |-> s4, raised |-> FALSE]

(***************************************************************************)
(* State.                                                                  *)
(*   main():  pc, inFile, data, i, stocks_sorted, outFile, writes, report  *)
(*   one record under the scorer alone:  stock, input, calls               *)
(***************************************************************************)
VARIABLES
  pc,             \* where main() is
  inFile,         \* what args.input holds
  data,           \* the loaded document (`stocks` aliases data['stocks'])
  i,              \* records the loop of main() has taken
  stocks_sorted,  \* the local list sorted() returns
  outFile,        \* what args.output holds
  writes,         \* times args.output was opened for writing
  report,         \* tickers of the rows printed under TOP 10
  stock,          \* the record handed to process_stock
  input,          \* that record as it was before the first call
  calls           \* calls of process_stock on it so far

vars == <<pc, inFile, data, i, stocks_sorted, outFile, writes, report,
          stock, input, calls>>

mainVars == <<pc, inFile, data, i, stocks_sorted, outFile, writes, report>>

scorerVars == <<stock, input, calls>>

DerivedKeys ==
  {"nwf_score", "nwf_confidence", "liquidity_score", "nwf_robust_score"}

Without(d, keys) == [k \in DOMAIN d \ keys |-> d[k]]

Merge(d, e) ==
  [k \in DOMAIN d \cup DOMAIN e |-> IF k \in DOMAIN e THEN e[k] ELSE d[k]]

\* every dictionary with some of `keys`, each bound to one of `values`
Partial(keys, values) == UNION {[S -> values] : S \in SUBSET keys}

(***************************************************************************)
(* Input records of the scorer specification: a base record with the       *)
(* fields of two signal groups replaced by every combination of absent     *)
(* fields and values on both sides of each threshold.                      *)
(***************************************************************************)
Bull ==
  [price |-> 100, ma20 |-> 95, ma50 |-> 90, macd |-> 12, macd_signal |-> 8,
   rsi |-> 55, volatility |-> 25, vol_spike |-> 22, avg_volume |-> 600000,
   ai_ensemble |-> [confidence |-> 80]]

Bases == {EmptyDict, Bull}

AiValues == {-1000, 0, 55, 100, 1000}

Groups ==
  << Partial({"price", "ma20", "ma50"}, {90, 100, 110}),
     Partial({"macd", "macd_signal"}, {-2, -1, 1, 2}),
     Partial({"rsi"}, {29, 30, 39, 40, 60, 61, 70, 71}),
     Partial({"volatility"}, {29, 30, 39, 40, 49, 50, 79, 80, 81}),
     Partial({"vol_spike"}, {9, 10, 14, 15, 19, 20}),
     Partial({"avg_volume"}, {49999, 50000, 99999, 100000, 199999, 200000,
                              299999, 300000, 499999, 500000}),
     {EmptyDict, [ai_ensemble |-> EmptyDict]}
       \cup {[ai_ensemble |-> [confidence |-> a]] : a \in AiValues},
     \* a record a previous run has enhanced, its inputs changed since
     {EmptyDict,
      [nwf_score |-> 777, nwf_confidence |-> 88, liquidity_score |-> 7,
       nwf_robust_score |-> 123]} >>

GroupKeys(g) == UNION {DOMAIN d : d \in Groups[g]}

InputRecords ==
  UNION { { Merge(Without(b, GroupKeys(g) \cup GroupKeys(h)), Merge(x, y)) :
              x \in Groups[g], y \in Groups[h] } :
          b \in Bases, g \in 1..Len(Groups), h \in 1..Len(Groups) }

(***************************************************************************)
(* The scorer alone: process_stock called on one record, again and again.  *)
(***************************************************************************)
ScorerInit ==
  /\ stock \in InputRecords
  /\ input = stock
  /\ calls = 0
  /\ pc = "scorer"
  /\ inFile = EmptyDict
  /\ data = EmptyDict
  /\ i = 0
  /\ stocks_sorted = <<>>
  /\ outFile = EmptyDict
  /\ writes = 0
  /\ report = <<>>

ProcessStock ==
  /\ pc = "scorer"
  /\ calls < MaxCalls
  /\ stock' = process_stock(stock).stock
  /\ calls' = calls + 1
  /\ UNCHANGED <<input, mainVars>>

ScorerNext == ProcessStock

ScorerSpec == ScorerInit /\ [][ScorerNext]_vars

(***************************************************************************)
(* main()                                                                  *)
(***************************************************************************)
\* the rows of the TOP 10 table
TopN == 10

\* records a `stocks` list is made of
StockRecords ==
  { Put(Bull, "ticker", "AAA"),
    [ticker |-> "BBB"],
    [ticker |-> "CCC"],
    [ticker |-> "DDD", price |-> 90, ma20 |-> 100, ma50 |-> 110, macd |-> -2,
     macd_signal |-> -1, rsi |-> 80, volatility |-> 90, vol_spike |-> 5,
     avg_volume |-> 60000, ai_ensemble |-> [confidence |-> 0]],
    [ticker |-> "EEE", avg_volume |-> NonNumeric],
    [ticker |-> "FFF", rsi |-> NonNumeric],
    [ticker |-> "GGG", price |-> 100, ma20 |-> 95, ma50 |-> NonNumeric],
    [ticker |-> "HHH", nwf_score |-> 999, nwf_confidence |-> 95,
     liquidity_score |-> 9, nwf_robust_score |-> 949],
    [rsi |-> 20] }

RECURSIVE SeqsUpTo(_, _)
SeqsUpTo(S, n) ==
  IF n = 0 THEN {<<>>}
  ELSE LET shorter == SeqsUpTo(S, n - 1)
       IN  shorter \cup {Append(s, x) : s \in shorter, x \in S}

\* JSON documents: with a `stocks` list, or without the key
Documents ==
  {EmptyDict} \cup {[stocks |-> s] : s \in SeqsUpTo(StockRecords, MaxStocks)}

InputFiles ==
  {[kind |-> "missing"], [kind |-> "malformed"]}
    \cup {[kind |-> "json", doc |-> d] : d \in Documents}

\* strftime('%Y-%m-%d %H:%M:%S') of datetime.now()
Clock == {"2026-11-03 09:00:00", "2026-11-03 09:00:01"}

NoFile == [kind |-> "absent"]

\* stocks = data.get('stocks', [])
Stocks(d) == Get(d, "stocks", <<>>)

robust_key(x) == Get(x, "nwf_robust_score", 0)

\* x put behind every element whose key is not smaller
RECURSIVE InsertDescending(_, _)
InsertDescending(x, s) ==
  IF s = <<>> THEN <<x>>
  ELSE IF robust_key(Head(s)) >= robust_key(x)
       THEN <<Head(s)>> \o InsertDescending(x, Tail(s))
       ELSE <<x>> \o s

RECURSIVE SortedPrefix(_, _)
SortedPrefix(s, n) ==
  IF n = 0 THEN <<>> ELSE InsertDescending(s[n], SortedPrefix(s, n - 1))

\* sorted(stocks, key=..., reverse=True): a new list, stable
sorted_by_robust(s) == SortedPrefix(s, Len(s))

Init ==
  /\ pc = "load"
  /\ inFile \in InputFiles
  /\ data = EmptyDict
  /\ i = 0
  /\ stocks_sorted = <<>>
  /\ outFile = NoFile
  /\ writes = 0
  /\ report = <<>>
  /\ stock = EmptyDict
  /\ input = EmptyDict
  /\ calls = 0

\* json.load(f) succeeds
LoadData ==
  /\ pc = "load"
  /\ inFile.kind = "json"
  /\ data' = inFile.doc
  /\ pc' = "process"
  /\ UNCHANGED <<inFile, i, stocks_sorted, outFile, writes, report, scorerVars>>

\* except FileNotFoundError: print, return
LoadFileNotFound ==
  /\ pc = "load"
  /\ inFile.kind = "missing"
  /\ pc' = "aborted"
  /\ UNCHANGED <<inFile, data, i, stocks_sorted, outFile, writes, report,
                 scorerVars>>

\* the handler printing the error and going on with an empty document
LoadJSONDecodeError_continues ==
  /\ pc = "load"
  /\ inFile.kind = "malformed"
  /\ data' = EmptyDict
  /\ pc' = "process"
  /\ UNCHANGED <<inFile, i, stocks_sorted, outFile, writes, report, scorerVars>>

\* except json.JSONDecodeError: print, return
LoadJSONDecodeError ==
  /\ pc = "load"
  /\ inFile.kind = "malformed"
  /\ pc' = "aborted"
  /\ UNCHANGED <<inFile, data, i, stocks_sorted, outFile, writes, report,
                 scorerVars>>

\* the loop catching what process_stock raises and taking the next record
ProcessNext_swallow ==
  /\ pc = "process"
  /\ i < Len(Stocks(data))
  /\ data' = [data EXCEPT
                !["stocks"][i + 1] = process_stock(Stocks(data)[i + 1]).stock]
  /\ pc' = "process"
  /\ i' = i + 1
  /\ UNCHANGED <<inFile, stocks_sorted, outFile, writes, report, scorerVars>>

\* one turn of `for i, stock in enumerate(stocks, 1)`: the record is mutated
\* in place, and an exception of process_stock leaves main()
ProcessNext ==
  /\ pc = "process"
  /\ i < Len(Stocks(data))
  /\ LET r == process_stock(Stocks(data)[i + 1])
     IN  /\ data' = [data EXCEPT !["stocks"][i + 1] = r.stock]
         /\ IF r.raised
            THEN pc' = "crashed" /\ i' = i
            ELSE pc' = "process" /\ i' = i + 1
  /\ UNCHANGED <<inFile, stocks_sorted, outFile, writes, report, scorerVars>>

\* the loop is over: data['nwf_enhanced'], ['nwf_version'], ['last_nwf_update']
UpdateMetadata ==
  /\ pc = "process"
  /\ i = Len(Stocks(data))
  /\ \E now \in Clock :
       data' = Put(Put(Put(data, "nwf_enhanced", TRUE), "nwf_version", "2.0"),
                   "last_nwf_update", now)
  /\ pc' = "sort"
  /\ UNCHANGED <<inFile, i, stocks_sorted, outFile, writes, report, scorerVars>>

\* stocks_sorted = sorted(stocks, ...): data['stocks'] keeps its order
SortStocks ==
  /\ pc = "sort"
  /\ stocks_sorted' = sorted_by_robust(Stocks(data))
  /\ pc' = "save"
  /\ UNCHANGED <<inFile, data, i, outFile, writes, report, scorerVars>>

\* with open(args.output, 'w'): json.dump(data, ...)
Save ==
  /\ pc = "save"
  /\ outFile' = [kind |-> "json", doc |-> data]
  /\ writes' = writes + 1
  /\ pc' = "report"
  /\ UNCHANGED <<inFile, data, i, stocks_sorted, report, scorerVars>>

RECURSIVE TickersUntilMissing(_)
TickersUntilMissing(s) ==
  IF s = <<>> \/ "ticker" \notin DOMAIN Head(s) THEN <<>>
  ELSE <<Head(s)["ticker"]>> \o TickersUntilMissing(Tail(s))

\* for i, stock in enumerate(stocks_sorted[:10], 1): print(stock['ticker'] ...)
\* a record without a ticker raises KeyError
ShowTop10 ==
  /\ pc = "report"
  /\ LET top == SubSeq(stocks_sorted, 1,
                       IF Len(stocks_sorted) < TopN THEN Len(stocks_sorted)
                       ELSE TopN)
     IN  /\ report' = TickersUntilMissing(top)
         /\ pc' = IF \A k \in 1..Len(top) : "ticker" \in DOMAIN top[k]
                  THEN "done" ELSE "crashed"
  /\ UNCHANGED <<inFile, data, i, stocks_sorted, outFile, writes, scorerVars>>

Next ==
  \/ LoadData
  \/ LoadFileNotFound
  \/ LoadJSONDecodeError
  \/ ProcessNext
  \/ UpdateMetadata
  \/ SortStocks
  \/ Save
  \/ ShowTop10

Spec == Init /\ [][Next]_vars

(***************************************************************************)
(* Properties.                                                             *)
(***************************************************************************)
Derived(d) == [k \in DerivedKeys \cap DOMAIN d |-> d[k]]

IsDescending(s) ==
  \A a, b \in 1..Len(s) : a < b => robust_key(s[a]) >= robust_key(s[b])

\* C1: after a successful run the `stocks` list of the written document is
\* ordered by nwf_robust_score descending, records of equal score in their
\* input order.
C1_OutputSortedStable ==
  pc = "done" =>
    /\ IsDescending(Stocks(outFile.doc))
    /\ Stocks(outFile.doc) = sorted_by_robust(Stocks(data))

\* C2: calculate_confidence returns an integer between 50 and 95 whatever the
\* inputs are.
C2_ConfidenceRange ==
  calls >= 1 =>
    /\ stock["nwf_confidence"] \in 50..95
    /\ calculate_confidence(input) \in 50..95

C2_Witness ==
  /\ calls >= 1
  /\ ai_conf(input) = 1000
  /\ base_conf(input) > 950
  /\ stock["nwf_confidence"] = 95

\* C3: after process_stock the stored nwf_robust_score is
\* round(nwf_score * nwf_confidence / 100, 2) of the nwf_score and
\* nwf_confidence the same call stored, all four keys being present.
C3_RobustFromStored ==
  calls >= 1 =>
    /\ DerivedKeys \subseteq DOMAIN stock
    /\ stock["nwf_score"] = calculate_nwf_score(input)
    /\ stock["nwf_confidence"] = calculate_confidence(input)
    /\ stock["nwf_robust_score"] =
         RoundScoreTimesConfidence(stock["nwf_score"], stock["nwf_confidence"])

C3_Witness ==
  /\ calls = 1
  /\ "nwf_score" \in DOMAIN input
  /\ stock["nwf_score"] # input["nwf_score"]
  /\ stock["nwf_confidence"] # input["nwf_confidence"]
  /\ stock["nwf_robust_score"] # input["nwf_robust_score"]

\* C4: process_stock is idempotent: a further call on an enhanced record
\* leaves the record as the first call left it, and the derived fields a
\* record already holds do not change what is computed.
C4_Idempotent ==
  calls >= 1 =>
    /\ process_stock(stock).stock = stock
    /\ Derived(stock) = Derived(process_stock(Without(input, DerivedKeys)).stock)

C4_Witness ==
  /\ calls = 2
  /\ "nwf_score" \in DOMAIN input
  /\ Derived(stock) # Derived(input)

\* C5: when the input file is missing or is not valid JSON, main() aborts:
\* no record is processed and the output file is never written.
C5_LoadFailureAborts ==
  inFile.kind \in {"missing", "malformed"} =>
    /\ pc \in {"load", "aborted"}
    /\ i = 0
    /\ data = EmptyDict
    /\ outFile = NoFile
    /\ writes = 0

C5_Witness == pc = "aborted" /\ inFile.kind = "malformed"

\* the tier the specification's table gives an average volume
LiquidityTier(v) ==
  CASE v >= 500000 -> 9
    [] v >= 300000 /\ v < 500000 -> 8
    [] v >= 200000 /\ v < 300000 -> 7
    [] v >= 100000 /\ v < 200000 -> 6
    [] v >= 50000 /\ v < 100000 -> 5
    [] v < 50000 -> 4

AvgVolumes == {0} \cup UNION {{d["avg_volume"] : d \in Groups[6] \ {EmptyDict}}}

\* C6: liquidity_score is one of 4..9, steps up exactly at 50000, 100000,
\* 200000, 300000 and 500000, and never decreases as avg_volume grows.
C6_LiquiditySteps ==
  /\ calls >= 1 =>
       /\ stock["liquidity_score"] \in {4, 5, 6, 7, 8, 9}
       /\ stock["liquidity_score"] = LiquidityTier(Get(input, "avg_volume", 0))
  /\ \A a, b \in AvgVolumes :
       a <= b => calculate_liquidity_score([avg_volume |-> a])
                   <= calculate_liquidity_score([avg_volume |-> b])

C6_Witness ==
  /\ calls >= 1
  /\ Get(input, "avg_volume", 0) = 300000
  /\ stock["liquidity_score"] = 8

\* the record with every absent scored field set to its documented default
WithDefaults(d) ==
  LET top == Merge([price |-> 0, ma20 |-> 0, ma50 |-> 0, macd |-> 0,
                    macd_signal |-> 0, rsi |-> 50, volatility |-> 50,
                    vol_spike |-> 10, avg_volume |-> 0,
                    ai_ensemble |-> EmptyDict], d)
  IN  Put(top, "ai_ensemble", Merge([confidence |-> 50], top["ai_ensemble"]))

MissingFieldsDefaulted ==
  calls >= 1 =>
    /\ ~process_stock(input).raised
    /\ DerivedKeys \subseteq DOMAIN stock
    /\ Derived(stock) = Derived(process_stock(WithDefaults(input)).stock)

\* C7 as stated: a record with scored fields absent yields the derived
\* values of the record with the defaults filled in, and the empty record
\* yields nwf_score 5.5, confidence 65, liquidity 4, robust score 3.58.
C7_EmptyRecordAsStated ==
  /\ MissingFieldsDefaulted
  /\ (calls >= 1 /\ input = EmptyDict) =>
       Derived(stock) = [nwf_score |-> 550, nwf_confidence |-> 65,
                         liquidity_score |-> 4, nwf_robust_score |-> 358]

\* C7 amended: a record with scored fields absent yields the derived values
\* of the record with the defaults filled in, and the empty record yields
\* nwf_score 5.4, confidence 65, liquidity 4, robust score 3.51.
C7_MissingFieldsDefaulted ==
  /\ MissingFieldsDefaulted
  /\ (calls >= 1 /\ input = EmptyDict) =>
       Derived(stock) = [nwf_score |-> 540, nwf_confidence |-> 65,
                         liquidity_score |-> 4, nwf_robust_score |-> 351]

C7_Witness ==
  /\ calls >= 1
  /\ input = EmptyDict
  /\ stock["nwf_score"] = 540

\* the adjustments of the confidence as the specification words them, in
\* tenths, read off the record with its defaults
VolAdj(d) ==
  LET v == Get(d, "volatility", 50)
  IN  CASE v < 40 -> 100 [] v > 80 -> -100 [] v >= 40 /\ v <= 80 -> 0

TrendAdj(d) ==
  LET p == Get(d, "price", 0) m20 == Get(d, "ma20", 0) m50 == Get(d, "ma50", 0)
  IN  CASE p > m20 /\ m20 > m50 -> 150
        [] p < m20 /\ m20 < m50 -> 100
        [] OTHER -> 50

RsiAdj(d) == IF Get(d, "rsi", 50) \in 30..70 THEN 100 ELSE 0

MacdAdj(d) ==
  LET m == Get(d, "macd", 0) s == Get(d, "macd_signal", 0)
      p == Get(d, "price", 0) m20 == Get(d, "ma20", 0)
  IN  IF (m > s /\ p > m20) \/ (m < s /\ p < m20) THEN 100 ELSE 0

UnclampedTenths(d) ==
  500 + (ai_conf(d) - 50) * 3 + VolAdj(d) + TrendAdj(d) + RsiAdj(d) + MacdAdj(d)

\* the integer part of t / 10
IntPart(t) == CHOOSE n \in ((t \div 10) - 1)..((t \div 10) + 1) :
                IF t >= 0 THEN 10 * n <= t /\ t < 10 * n + 10
                ELSE 10 * n >= t /\ t > 10 * n - 10

\* C8: calculate_confidence clamps once, at the end: the result is
\* min(95, max(50, trunc(50 + (ai - 50) * 0.3 + volAdj + trendAdj + rsiAdj
\* + macdAdj))); sums below 50 or above 95 on the way are carried forward.
C8_ClampedOnceAtEnd ==
  calls >= 1 =>
    LET n == IntPart(UnclampedTenths(input))
    IN  stock["nwf_confidence"] = IF n > 95 THEN 95 ELSE IF n < 50 THEN 50 ELSE n

C8_Witness ==
  /\ calls >= 1
  /\ input = Put(Bull, "ai_ensemble", [confidence |-> 0])
  /\ 500 + AiFactor(input) < 500
  /\ stock["nwf_confidence"] = 80

\* C9: nwf_score is the unclamped sum of the five ladder values and
\* ai_confidence / 100: within [0, 10] when ai_confidence is in [0, 100],
\* and with the AI term above 1.0, not clamped, when ai_confidence > 100.
C9_ScoreUnclampedSum ==
  calls >= 1 =>
    LET ladder == TrendSignal(input) + MacdSignal(input) + RsiSignal(input)
                    + VolatilitySignal(input) + VolumeSignal(input)
    IN  /\ TrendSignal(input) \in {50, 150, 250}
        /\ MacdSignal(input) \in {50, 100, 150, 200}
        /\ RsiSignal(input) \in {50, 100, 150, 180, 200}
        /\ VolatilitySignal(input) \in {30, 80, 120, 150}
        /\ VolumeSignal(input) \in {30, 60, 80, 100}
        /\ stock["nwf_score"] = ladder + ai_conf(input)
        /\ ai_conf(input) \in 0..100 => stock["nwf_score"] \in 0..1000
        /\ ai_conf(input) > 100 => stock["nwf_score"] - ladder > 100

C9_Witness ==
  /\ calls >= 1
  /\ ai_conf(input) > 100
  /\ stock["nwf_score"] > 1000

\* C10: the output file is written at most once, only after every record
\* has been processed in input order and the metadata stamped; a record whose
\* processing raises stops the run before the write.
C10_WriteOnceAfterAll ==
  /\ writes <= 1
  /\ (writes = 0) = (outFile = NoFile)
  /\ pc \in {"process", "sort", "save", "report", "done", "crashed"} =>
       LET before == Stocks(inFile.doc)
           now    == Stocks(data)
       IN  /\ Len(now) = Len(before)
           /\ \A k \in 1..Len(now) :
                /\ k <= i => LET r == process_stock(before[k])
                             IN  now[k] = r.stock /\ ~r.raised
                /\ k > i + 1 => now[k] = before[k]
                /\ (k = i + 1 /\ pc # "crashed") => now[k] = before[k]
  /\ outFile # NoFile =>
       /\ i = Len(Stocks(data))
       /\ outFile.doc = data
       /\ \A k \in 1..Len(Stocks(outFile.doc)) :
            DerivedKeys \subseteq DOMAIN Stocks(outFile.doc)[k]
       /\ outFile.doc["nwf_enhanced"] = TRUE
       /\ outFile.doc["nwf_version"] = "2.0"
       /\ outFile.doc["last_nwf_update"] \in Clock
  /\ (pc = "crashed" /\ i < Len(Stocks(data))) => outFile = NoFile

C10_Witness ==
  /\ pc = "done"
  /\ writes = 1
  /\ Len(Stocks(outFile.doc)) >= 2
  /\ outFile.doc["nwf_enhanced"] = TRUE

====
